---- MODULE Spec2Model ----
(***************************************************************************)
(* State-machine model of go-tunnel.                                       *)
(*                                                                         *)
(*   - the tunnel engine: ExecuteAndBlock, acceptNewConnectionAndTunnel    *)
(*     and tunnel of the library package;                                  *)
(*   - the topology orchestrator: run, jobForConfig and handleConnectionTo *)
(*     of cmd/tunnel.                                                      *)
(*                                                                         *)
(* Every goroutine is a process whose position is a variable; a step of    *)
(* the model is one blocking call or one channel operation of the source.  *)
(* The network (bind, dial and accept outcomes, the peer closing a         *)
(* connection, end of stream) and the interrupt signal are the             *)
(* environment: they are nondeterministic.                                 *)
(***************************************************************************)
EXTENDS Naturals, FiniteSets, Bags

VARIABLES
    topo,       \* shape of the config: "chain" (hop 2 is the ThroughSSH entry
                \* of hop 1) or "siblings" (hops 1 and 2 are top-level entries)
    nf,         \* nf[h]: number of enabled forward rules of hop h (spec.Forward)
    nr,         \* nr[h]: number of reverse rules of hop h (spec.Reverse)
    dest,       \* the destination string of the rules: "up" names an address
                \* that answers, "down" one that refuses, "empty" is ""
    via,        \* the destination of a ThroughSSH hop is a forwarded port of
                \* its parent: its control connection runs through a tunnel
                \* instance of the parent
    limit,      \* model bound: client connections accepted in one behaviour
    cancelled,  \* the shared context ctx is done
    runSt,      \* position of run
    hct,        \* hct[h]: position of handleConnectionTo for hop h
    gate,       \* gate[h]: position of the children-launching job of hop h
    finished,   \* finished[h]: channel finished of hop h is closed
    errSent,    \* errSent[h]: an error was sent on errCh of hop h
    pc,         \* pc[h]: position of ExecuteAndBlock for hop h
    conn,       \* conn[h]: the control connection (serverConnection)
    closeCalls, \* closeCalls[h]: calls of serverConnection.Close()
    okClosed,   \* okClosed[h]: calls of close(ok)
    lst,        \* lst[h][r]: listener of rule r
    al,         \* al[h][r]: accept loop of rule r
    wg,         \* wg[h]: counter of the sync.WaitGroup
    inst,       \* inst[h]: bag of the tunnel goroutines of hop h
    nacc,       \* connections accepted so far (all hops)
    cfgOk,      \* cfgOk[h]: the config entry of hop h has a destination and
                \* its secrets are in the vault
    ver,        \* the entry point of the library that is called
    probe       \* the running call of isDestinationAvailable

vars == <<topo, nf, nr, dest, via, limit, cancelled, runSt, hct, gate, finished, errSent,
          pc, conn, closeCalls, okClosed, lst, al, wg, inst, nacc, cfgOk, ver, probe>>

orchVars == <<runSt, hct, gate, finished, errSent>>
cfgVars  == <<topo, nf, nr, dest, via, limit, cfgOk, ver>>

(***************************************************************************)
(* Bounds of the model.                                                    *)
(***************************************************************************)
MaxRules == 2        \* rules (forward and reverse) of the Spec given to
                     \* ExecuteAndBlock in EngineSpec, at most
MaxAccepts == 1      \* accepted connections in a behaviour of Spec
EngAccepts == 2      \* accepted connections in a behaviour of EngineSpec
LiveAccepts == 1     \* accepted connections in a behaviour of LiveSpec
FairAccepts == 2     \* accepted client connections in a behaviour of
                     \* TeardownSpec that starts with the library call

\* the enabled tunnels of a hop of the config file: the claims about the
\* orchestrator do not depend on their number, EngineSpec varies it
TreeRules == {1}

(***************************************************************************)
(* The hop tree: hop 1 is a top-level entry of SshConfigs; hop 2 is its    *)
(* ThroughSSH entry ("chain") or a second top-level entry ("siblings").    *)
(***************************************************************************)
Hops == {1, 2}
Roots == IF topo = "chain" THEN {1} ELSE Hops
Children(h) == IF topo = "chain" /\ h = 1 THEN {2} ELSE {}
Rules == 1 .. MaxRules

DestKinds == {"up", "down", "empty"}

\* hop c dials its control connection on a forwarded port of its parent
Via(c) == via /\ \E p \in Hops : c \in Children(p)
Parent(c) == CHOOSE p \in Hops : c \in Children(p)

IsFwd(h, r) == r <= nf[h]
IsRev(h, r) == r > nf[h] /\ r <= nf[h] + nr[h]

(***************************************************************************)
(* Positions of ExecuteAndBlock.                                           *)
(***************************************************************************)
ErrPcs  == {"errDial", "errBind"}
DonePcs == {"doneCtx", "doneConn"}
RetPcs  == ErrPcs \cup DonePcs

(***************************************************************************)
(* Tunnel goroutines.  A record of the bag inst[h] is one running call of  *)
(* tunnel; it leaves the bag when the call returns, which it does only     *)
(* with its connections closed:                                            *)
(*   st   "dialing"  destinationDevice.Dial has not returned               *)
(*        "copying"  registered with wg, the copy tasks run                *)
(*   open the accepted connection (and the dialed one) is open             *)
(*   c1, c2  the copy task remote->local / local->remote has finished      *)
(*   carries 0 for the connection of a client; c when the accepted         *)
(*        connection is the one hop c dials its control connection on      *)
(*   dev  the destinationDevice the goroutine was given: "ssh" is the      *)
(*        control connection, "local" the local network                   *)
(***************************************************************************)
NewCarrier(r, c) == [rule |-> r, st |-> "dialing", open |-> TRUE,
                     c1 |-> FALSE, c2 |-> FALSE, carries |-> c, dev |-> "ssh"]

NewTunnel(r) == NewCarrier(r, 0)

Tunnels(h) == BagToSet(inst[h])

Replace(b, old, new) == (b (-) SetToBag({old})) (+) SetToBag({new})

Live(h) == {i \in Tunnels(h) : i.st = "copying"}


(***************************************************************************)
(* ExecuteAndBlock, startup.                                               *)
(***************************************************************************)
AfterForward(h) == IF nr[h] > 0 THEN "bindR" ELSE "ready"

\* the revisions of Execute: "A" probes each destination with a dial that
\* blocks and skips a rule that fails, "B" probes with a time limit and
\* gives up on the first failure, "C" does not probe and gives up on the
\* first port it cannot bind; ver = "block" is a call of ExecuteAndBlock
ExecVers == {"A", "B", "C"}

\* Execute, where the loop over spec.Forward goes when the listeners are l:
\* to the next rule, or to return nil
ExecLoop(h, l) ==
    IF \E r \in Rules : IsFwd(h, r) /\ l[h][r] = "none"
    THEN IF ver = "C" THEN "xBind" ELSE "xProbe"
    ELSE "xDone"

AfterDial(h) ==
    IF ver \in ExecVers THEN ExecLoop(h, lst)
    ELSE IF nf[h] > 0 THEN "bindF" ELSE AfterForward(h)

\* the rule the loop over spec.Forward / spec.Reverse is at
FwdAt(h) == CHOOSE r \in Rules : IsFwd(h, r) /\ lst[h][r] = "none"
               /\ \A q \in Rules : q < r => lst[h][q] # "none"
RevAt(h) == CHOOSE r \in Rules : IsRev(h, r) /\ lst[h][r] = "none"
               /\ \A q \in Rules : q < r => lst[h][q] # "none"

\* faulty variant: the error of makeServerConnection is ignored
MakeServerConnectionErrIgnored(h) ==
    /\ pc[h] = "start"
    /\ ~Via(h)
    /\ \/ conn' = [conn EXCEPT ![h] = "open"]
       \/ UNCHANGED conn
    /\ pc' = [pc EXCEPT ![h] = AfterDial(h)]
    /\ UNCHANGED <<cfgVars, probe, cancelled, orchVars, closeCalls, okClosed, lst, al,
                   wg, inst, nacc>>

\* makeServerConnection: ssh.Dial succeeds, or fails and the call returns err
MakeServerConnection(h) ==
    /\ pc[h] = "start"
    /\ ~Via(h)
    /\ \/ /\ conn' = [conn EXCEPT ![h] = "open"]
          /\ pc' = [pc EXCEPT ![h] = AfterDial(h)]
       \/ /\ pc' = [pc EXCEPT ![h] = "errDial"]
          /\ UNCHANGED conn
    /\ UNCHANGED <<cfgVars, probe, cancelled, orchVars, closeCalls, okClosed, lst, al,
                   wg, inst, nacc>>

\* serverConnection.Close(): closes the connection unless the peer already has
ServerConnectionClose(h) ==
    /\ closeCalls' = [closeCalls EXCEPT ![h] = @ + 1]
    /\ conn' = [conn EXCEPT ![h] = IF @ = "open" THEN "closed" ELSE @]

\* faulty variant: the bind failure branch returns without closing the connection
ForwardBindFailedNoClose(h) ==
    /\ pc' = [pc EXCEPT ![h] = "errBind"]
    /\ UNCHANGED <<lst, al, conn, closeCalls>>

\* the bind failure branch of the loop over spec.Forward
ForwardBindFailed(h) ==
    /\ ServerConnectionClose(h)
    /\ pc' = [pc EXCEPT ![h] = "errBind"]
    /\ UNCHANGED <<lst, al>>

\* one iteration of the loop over spec.Forward
BindForward(h) ==
    /\ pc[h] = "bindF"
    /\ LET r == FwdAt(h) IN
       \/ /\ lst' = [lst EXCEPT ![h][r] = "open"]
          /\ al' = [al EXCEPT ![h][r] = "run"]
          /\ pc' = [pc EXCEPT ![h] = IF r = nf[h] THEN AfterForward(h) ELSE @]
          /\ UNCHANGED <<conn, closeCalls>>
       \/ ForwardBindFailed(h)
    /\ UNCHANGED <<cfgVars, probe, cancelled, orchVars, okClosed, wg, inst, nacc>>

\* one iteration of the loop over spec.Reverse: a failed bind is skipped
BindReverse(h) ==
    /\ pc[h] = "bindR"
    /\ LET r == RevAt(h)
           after == IF r = nf[h] + nr[h] THEN "ready" ELSE "bindR" IN
       \/ /\ conn[h] = "open"
          /\ lst' = [lst EXCEPT ![h][r] = "open"]
          /\ al' = [al EXCEPT ![h][r] = "run"]
          /\ pc' = [pc EXCEPT ![h] = after]
       \/ /\ lst' = [lst EXCEPT ![h][r] = "failed"]
          /\ pc' = [pc EXCEPT ![h] = after]
          /\ UNCHANGED al
    /\ UNCHANGED <<cfgVars, probe, cancelled, orchVars, conn, closeCalls, okClosed,
                   wg, inst, nacc>>

\* close(ok); the goroutine waiting on serverConnection.Wait() is spawned
CloseOk(h) ==
    /\ pc[h] = "ready"
    /\ okClosed' = [okClosed EXCEPT ![h] = @ + 1]
    /\ pc' = [pc EXCEPT ![h] = "select"]
    /\ UNCHANGED <<cfgVars, probe, cancelled, orchVars, conn, closeCalls, lst, al,
                   wg, inst, nacc>>

(***************************************************************************)
(* ExecuteAndBlock, the select and the two teardown branches.              *)
(***************************************************************************)
\* case <-ctx.Done()
SelectCtxDone(h) ==
    /\ pc[h] = "select"
    /\ cancelled
    /\ pc' = [pc EXCEPT ![h] = "ctxWait"]
    /\ UNCHANGED <<cfgVars, probe, cancelled, orchVars, conn, closeCalls, okClosed,
                   lst, al, wg, inst, nacc>>

\* case <-serverConnectionDone: serverConnection.Wait() returned
SelectConnDone(h) ==
    /\ pc[h] = "select"
    /\ conn[h] # "open"
    /\ pc' = [pc EXCEPT ![h] = "connWait"]
    /\ UNCHANGED <<cfgVars, probe, cancelled, orchVars, conn, closeCalls, okClosed,
                   lst, al, wg, inst, nacc>>

\* wg.Wait() returns when the counter is zero
WgWait(h) ==
    /\ pc[h] \in {"ctxWait", "connWait"}
    /\ wg[h] = 0
    /\ pc' = [pc EXCEPT ![h] = IF @ = "ctxWait" THEN "ctxCloseL" ELSE "connCloseL"]
    /\ UNCHANGED <<cfgVars, probe, cancelled, orchVars, conn, closeCalls, okClosed,
                   lst, al, wg, inst, nacc>>

\* l.Close() on the listeners of the rules rs of hop h
CloseListeners(h, rs) ==
    lst' = [lst EXCEPT ![h] = [r \in Rules |->
                IF r \in rs /\ lst[h][r] = "open" THEN "closed" ELSE lst[h][r]]]

FwdRules(h) == {r \in Rules : IsFwd(h, r)}
RevRules(h) == {r \in Rules : IsRev(h, r)}

\* context branch: l.Close() for the local, then for the remote listeners
CtxCloseListeners(h) ==
    /\ pc[h] = "ctxCloseL"
    /\ CloseListeners(h, FwdRules(h) \cup RevRules(h))
    /\ pc' = [pc EXCEPT ![h] = "ctxCloseConn"]
    /\ UNCHANGED <<cfgVars, probe, cancelled, orchVars, conn, closeCalls, okClosed,
                   al, wg, inst, nacc>>

\* faulty variant: the connection-done branch returns without closing the
\* local listeners
ConnReturnsWithoutClosing(h) ==
    /\ pc[h] = "connCloseL"
    /\ pc' = [pc EXCEPT ![h] = "doneConn"]
    /\ UNCHANGED <<cfgVars, probe, cancelled, orchVars, conn, closeCalls, okClosed,
                   lst, al, wg, inst, nacc>>

\* connection-done branch: l.Close() for the local listeners; return nil
ConnCloseListeners(h) ==
    /\ pc[h] = "connCloseL"
    /\ CloseListeners(h, FwdRules(h))
    /\ pc' = [pc EXCEPT ![h] = "doneConn"]
    /\ UNCHANGED <<cfgVars, probe, cancelled, orchVars, conn, closeCalls, okClosed,
                   al, wg, inst, nacc>>

\* serverConnection.Close(); serverConnection.Wait(); return nil
CloseServerConnection(h) ==
    /\ pc[h] = "ctxCloseConn"
    /\ ServerConnectionClose(h)
    /\ pc' = [pc EXCEPT ![h] = "doneCtx"]
    /\ UNCHANGED <<cfgVars, probe, cancelled, orchVars, okClosed, lst, al, wg, inst,
                   nacc>>

(***************************************************************************)
(* acceptNewConnectionAndTunnel: the accept loop of rule r of hop h.       *)
(* A forward rule listens on the local device, a reverse rule on the peer, *)
(* through the control connection.                                         *)
(***************************************************************************)
\* the device the listener of rule r was opened on: localConnection for
\* spec.Forward, serverConnection for spec.Reverse
ListenDevice(h, r) == IF IsFwd(h, r) THEN "local" ELSE "ssh"

\* the destinationDevice given to the accept loop of rule r: serverConnection
\* for spec.Forward, localConnection for spec.Reverse
DestinationDevice(h, r) == IF IsFwd(h, r) THEN "ssh" ELSE "local"

\* localNetwork is always there, the control connection while it is open
DeviceUp(h, d) == d = "ssh" => conn[h] = "open"

ListenerUsable(h, r) == lst[h][r] = "open" /\ DeviceUp(h, ListenDevice(h, r))

\* faulty variant: the accept loop hands the listening device to tunnel
AcceptSameDevice(h, r) ==
    /\ al[h][r] = "run"
    /\ ListenerUsable(h, r)
    /\ nacc < limit
    /\ inst' = [inst EXCEPT ![h] = @ (+) SetToBag(
                   {[NewTunnel(r) EXCEPT !.dev = ListenDevice(h, r)]})]
    /\ nacc' = nacc + 1
    /\ UNCHANGED <<cfgVars, probe, cancelled, orchVars, pc, conn, closeCalls, okClosed,
                   lst, al, wg>>

\* listener.Accept() returns a connection: go tunnel(...)
Accept(h, r) ==
    /\ al[h][r] = "run"
    /\ ListenerUsable(h, r)
    /\ nacc < limit
    /\ inst' = [inst EXCEPT ![h] = @ (+) SetToBag(
                   {[NewTunnel(r) EXCEPT !.dev = DestinationDevice(h, r)]})]
    /\ nacc' = nacc + 1
    /\ UNCHANGED <<cfgVars, probe, cancelled, orchVars, pc, conn, closeCalls, okClosed,
                   lst, al, wg>>

\* faulty variant: an accept failure also closes the control connection
AcceptErrorClosesConnection(h, r) ==
    /\ al[h][r] = "run"
    /\ al' = [al EXCEPT ![h][r] = "done"]
    /\ lst' = [lst EXCEPT ![h][r] = "closed"]
    /\ ServerConnectionClose(h)
    /\ UNCHANGED <<cfgVars, probe, cancelled, orchVars, pc, okClosed, wg, inst, nacc>>

\* listener.Accept() returns an error, because the listener was closed or its
\* device is gone, or unexpectedly: the loop returns, the deferred
\* listener.Close() runs
AcceptError(h, r) ==
    /\ al[h][r] = "run"
    /\ al' = [al EXCEPT ![h][r] = "done"]
    /\ lst' = [lst EXCEPT ![h][r] = "closed"]
    /\ UNCHANGED <<cfgVars, probe, cancelled, orchVars, pc, conn, closeCalls, okClosed,
                   wg, inst, nacc>>

(***************************************************************************)
(* tunnel: one goroutine per accepted connection.                          *)
(***************************************************************************)
\* destinationDevice.Dial("tcp", destination) can succeed while the device
\* the goroutine was given is up; it fails for a destination that refuses
\* and for the empty string
DialPossible(h, i) == dest = "up" /\ DeviceUp(h, i.dev)

\* destinationDevice.Dial succeeded; wg.Add(1); the closer goroutine and the
\* two copy tasks are started
DialOk(h, i) ==
    /\ i.st = "dialing"
    /\ DialPossible(h, i)
    /\ inst' = [inst EXCEPT ![h] = Replace(@, i, [i EXCEPT !.st = "copying"])]
    /\ wg' = [wg EXCEPT ![h] = @ + 1]
    /\ UNCHANGED <<cfgVars, probe, cancelled, orchVars, pc, conn, closeCalls, okClosed,
                   lst, al, nacc>>

\* faulty variant: a failed dial ends the accept loop of the rule
DialFailStopsLoop(h, i) ==
    /\ i.st = "dialing"
    /\ inst' = [inst EXCEPT ![h] = @ (-) SetToBag({i})]
    /\ al' = [al EXCEPT ![h][i.rule] = "done"]
    /\ lst' = [lst EXCEPT ![h][i.rule] = "closed"]
    /\ UNCHANGED <<cfgVars, probe, cancelled, orchVars, pc, conn, closeCalls, okClosed,
                   wg, nacc>>

\* destinationDevice.Dial failed: localConnection.Close(); return
DialFail(h, i) ==
    /\ i.st = "dialing"
    /\ inst' = [inst EXCEPT ![h] = @ (-) SetToBag({i})]
    /\ UNCHANGED <<cfgVars, probe, cancelled, orchVars, pc, conn, closeCalls, okClosed,
                   lst, al, wg, nacc>>

\* faulty variant: tunnel without the closer goroutine
CloserMissing(h, i) == FALSE

\* the closer goroutine: <-localCtx.Done(); both connections are closed
Closer(h, i) ==
    /\ i.st = "copying"
    /\ i.open
    /\ cancelled
    /\ inst' = [inst EXCEPT ![h] = Replace(@, i, [i EXCEPT !.open = FALSE])]
    /\ UNCHANGED <<cfgVars, probe, cancelled, orchVars, pc, conn, closeCalls, okClosed,
                   lst, al, wg, nacc>>

\* the hop that dialed through a forwarded port has ended its connection
ClientGone(c) == pc[c] = "errDial" \/ conn[c] \in {"closed", "dropped"}

\* a copy task can no longer block: a connection of the pair is closed, or
\* the control connection that carries one of them is gone, or the hop
\* whose control connection the pair carries has ended it
CopyUnblocked(h, i) ==
    \/ ~i.open
    \/ conn[h] # "open"
    \/ i.carries # 0 /\ ClientGone(i.carries)

\* faulty variant: a copy task returns without closing the connections
CopyEndKeepsOpen(h, i, k) ==
    /\ i.st = "copying"
    /\ \/ /\ k = 1
          /\ ~i.c1
          /\ inst' = [inst EXCEPT ![h] = Replace(@, i, [i EXCEPT !.c1 = TRUE])]
       \/ /\ k = 2
          /\ ~i.c2
          /\ inst' = [inst EXCEPT ![h] = Replace(@, i, [i EXCEPT !.c2 = TRUE])]
    /\ UNCHANGED <<cfgVars, probe, cancelled, orchVars, pc, conn, closeCalls, okClosed,
                   lst, al, wg, nacc>>

\* io.Copy returned in copy task k (end of stream or error); the task closes
\* both connections
CopyEnd(h, i, k) ==
    /\ i.st = "copying"
    /\ \/ /\ k = 1
          /\ ~i.c1
          /\ inst' = [inst EXCEPT ![h] =
                         Replace(@, i, [i EXCEPT !.c1 = TRUE, !.open = FALSE])]
       \/ /\ k = 2
          /\ ~i.c2
          /\ inst' = [inst EXCEPT ![h] =
                         Replace(@, i, [i EXCEPT !.c2 = TRUE, !.open = FALSE])]
    /\ UNCHANGED <<cfgVars, probe, cancelled, orchVars, pc, conn, closeCalls, okClosed,
                   lst, al, wg, nacc>>

\* faulty variant: tunnel returns without wg.Done()
TunnelDoneNoDone(h, i) ==
    /\ i.st = "copying"
    /\ i.c1 /\ i.c2
    /\ inst' = [inst EXCEPT ![h] = @ (-) SetToBag({i})]
    /\ UNCHANGED <<cfgVars, probe, cancelled, orchVars, pc, conn, closeCalls, okClosed,
                   lst, al, wg, nacc>>

\* nursery.RunConcurrently returned: wg.Done(); the goroutine returns
TunnelDone(h, i) ==
    /\ i.st = "copying"
    /\ i.c1 /\ i.c2
    /\ inst' = [inst EXCEPT ![h] = @ (-) SetToBag({i})]
    /\ wg' = [wg EXCEPT ![h] = @ - 1]
    /\ UNCHANGED <<cfgVars, probe, cancelled, orchVars, pc, conn, closeCalls, okClosed,
                   lst, al, nacc>>

(***************************************************************************)
(* A ThroughSSH hop behind a forwarded port: ssh.Dial of hop c connects to *)
(* a forward listener of its parent p, the accept loop of p starts a       *)
(* tunnel instance for the connection, and the ssh handshake of c runs     *)
(* through that instance.                                                  *)
(***************************************************************************)
Carriers(c) == {i \in Tunnels(Parent(c)) : i.carries = c /\ i.open}

\* the stream of hop c reaches the parent's ssh server
Carried(c) ==
    /\ conn[Parent(c)] = "open"
    /\ \E i \in Carriers(c) : i.st = "copying"

\* listener.Accept() of rule r of p returns the connection hop c dialed:
\* go tunnel(...); c is inside ssh.Dial
AcceptChild(p, r, c) ==
    /\ c \in Children(p)
    /\ via
    /\ pc[c] = "start"
    /\ IsFwd(p, r)
    /\ al[p][r] = "run"
    /\ ListenerUsable(p, r)
    /\ inst' = [inst EXCEPT ![p] = @ (+) SetToBag({NewCarrier(r, c)})]
    /\ pc' = [pc EXCEPT ![c] = "sshDial"]
    /\ UNCHANGED <<cfgVars, probe, cancelled, orchVars, conn, closeCalls, okClosed,
                   lst, al, wg, nacc>>

\* the port is not listened on, or the connection ssh.Dial is on was closed
NoWayThrough(c) ==
    \/ pc[c] = "start" /\ \A r \in Rules : ~(IsFwd(Parent(c), r) /\ lst[Parent(c)][r] = "open")
    \/ pc[c] = "sshDial" /\ Carriers(c) = {}

\* makeServerConnection of a hop behind a forwarded port: ssh.Dial fails
SshDialFails(c) ==
    /\ Via(c)
    /\ pc[c] \in {"start", "sshDial"}
    /\ pc' = [pc EXCEPT ![c] = "errDial"]
    /\ UNCHANGED <<cfgVars, probe, cancelled, orchVars, conn, closeCalls, okClosed,
                   lst, al, wg, inst, nacc>>

\* makeServerConnection of a hop behind a forwarded port: ssh.Dial succeeds
SshDialOk(c) ==
    /\ Via(c)
    /\ pc[c] = "sshDial"
    /\ Carried(c)
    /\ conn' = [conn EXCEPT ![c] = "open"]
    /\ pc' = [pc EXCEPT ![c] = AfterDial(c)]
    /\ UNCHANGED <<cfgVars, probe, cancelled, orchVars, closeCalls, okClosed, lst, al,
                   wg, inst, nacc>>

\* the connection under the control connection of hop c was closed by the
\* tunnel instance that carried it: serverConnection.Wait() of c returns
CarrierLost(c) ==
    /\ Via(c)
    /\ conn[c] = "open"
    /\ Carriers(c) = {}
    /\ conn' = [conn EXCEPT ![c] = "dropped"]
    /\ UNCHANGED <<cfgVars, probe, cancelled, orchVars, pc, closeCalls, okClosed, lst,
                   al, wg, inst, nacc>>

(***************************************************************************)
(* The environment.                                                        *)
(***************************************************************************)
\* the interrupt signal cancels the shared context
Cancel ==
    /\ ~cancelled
    /\ cancelled' = TRUE
    /\ UNCHANGED <<cfgVars, probe, orchVars, pc, conn, closeCalls, okClosed, lst, al,
                   wg, inst, nacc>>

\* the peer (or the network) ends the control connection of hop h
PeerClose(h) ==
    /\ conn[h] = "open"
    /\ conn' = [conn EXCEPT ![h] = "dropped"]
    /\ UNCHANGED <<cfgVars, probe, cancelled, orchVars, pc, closeCalls, okClosed, lst,
                   al, wg, inst, nacc>>

(***************************************************************************)
(* The orchestrator: run, jobForConfig, handleConnectionTo.                *)
(***************************************************************************)
Returned(h) == hct[h] \in {"retNil", "retErr"}

\* sshConfig.validateAndUpdate: the entry and its ThroughSSH entries
ValidateAndUpdate(h) == cfgOk[h] /\ \A c \in Children(h) : cfgOk[c]

\* nursery.RunConcurrently(jobs...): every job is started
StartJobs(hs) == hct' = [h \in Hops |-> IF h \in hs THEN "start" ELSE hct[h]]

\* faulty variant: run starts the job of every entry that validates and
\* returns the error of one that does not
RunStartsValidated ==
    /\ runSt = "start"
    /\ StartJobs({h \in Roots : ValidateAndUpdate(h)})
    /\ runSt' = IF \A h \in Roots : ValidateAndUpdate(h) THEN "running" ELSE "retErr"
    /\ UNCHANGED <<cfgVars, probe, cancelled, gate, finished, errSent, pc, conn,
                   closeCalls, okClosed, lst, al, wg, inst, nacc>>

\* run: the validation loop, then nursery.RunConcurrently(jobs...)
Run ==
    /\ runSt = "start"
    /\ IF \A h \in Roots : ValidateAndUpdate(h)
         THEN StartJobs(Roots) /\ runSt' = "running"
         ELSE runSt' = "retErr" /\ UNCHANGED hct
    /\ UNCHANGED <<cfgVars, probe, cancelled, gate, finished, errSent, pc, conn,
                   closeCalls, okClosed, lst, al, wg, inst, nacc>>

\* run: nursery.RunConcurrently returns when every job has returned; no job
\* sends on its error channel
RunReturn ==
    /\ runSt = "running"
    /\ \A h \in Roots : Returned(h)
    /\ runSt' = "retNil"
    /\ UNCHANGED <<cfgVars, probe, cancelled, hct, gate, finished, errSent, pc, conn,
                   closeCalls, okClosed, lst, al, wg, inst, nacc>>

\* faulty variant: jobForConfig escalates the error and the shared context is
\* cancelled
JobForConfigAborts(h, err) == cancelled' = (cancelled \/ err)

\* jobForConfig: the error handleConnectionTo returned is logged, nothing else
JobForConfig(h, err) == UNCHANGED cancelled

\* handleConnectionTo: sshAuthFromAuth for every auth; an error returns at
\* once; otherwise the two jobs are started
ResolveAuth(h) ==
    /\ hct[h] = "start"
    /\ \/ /\ hct' = [hct EXCEPT ![h] = "running"]
          /\ pc' = [pc EXCEPT ![h] = "start"]
          /\ gate' = [gate EXCEPT ![h] = "wait"]
          /\ UNCHANGED cancelled
       \/ /\ hct' = [hct EXCEPT ![h] = "retErr"]
          /\ JobForConfig(h, TRUE)
          /\ UNCHANGED <<pc, gate>>
    /\ UNCHANGED <<cfgVars, probe, runSt, finished, errSent, conn, closeCalls,
                   okClosed, lst, al, wg, inst, nacc>>

\* faulty variant: the first job drops the error of ExecuteAndBlock
EngineJobReturnSilent(h) ==
    /\ hct[h] = "running"
    /\ pc[h] \in RetPcs
    /\ ~finished[h]
    /\ finished' = [finished EXCEPT ![h] = TRUE]
    /\ UNCHANGED <<cfgVars, probe, cancelled, runSt, hct, gate, errSent, pc, conn,
                   closeCalls, okClosed, lst, al, wg, inst, nacc>>

\* faulty variant: the first job returns after errCh <- err and closes
\* finished only when ExecuteAndBlock returned nil
EngineJobReturnErrNoFinish(h) ==
    /\ hct[h] = "running"
    /\ pc[h] \in RetPcs
    /\ ~finished[h]
    /\ errSent' = [errSent EXCEPT ![h] = pc[h] \in ErrPcs]
    /\ finished' = [finished EXCEPT ![h] = pc[h] \notin ErrPcs]
    /\ UNCHANGED <<cfgVars, probe, cancelled, runSt, hct, gate, pc, conn, closeCalls,
                   okClosed, lst, al, wg, inst, nacc>>

\* first job: ExecuteAndBlock returned; errCh <- err on error; close(finished)
EngineJobReturn(h) ==
    /\ hct[h] = "running"
    /\ pc[h] \in RetPcs
    /\ ~finished[h]
    /\ errSent' = [errSent EXCEPT ![h] = pc[h] \in ErrPcs]
    /\ finished' = [finished EXCEPT ![h] = TRUE]
    /\ UNCHANGED <<cfgVars, probe, cancelled, runSt, hct, gate, pc, conn, closeCalls,
                   okClosed, lst, al, wg, inst, nacc>>

\* second job, case <-ok: the ThroughSSH children are started
GateOk(h) ==
    /\ gate[h] = "wait"
    /\ okClosed[h] > 0
    /\ gate' = [gate EXCEPT ![h] = "launched"]
    /\ StartJobs(Children(h))
    /\ UNCHANGED <<cfgVars, probe, cancelled, runSt, finished, errSent, pc, conn,
                   closeCalls, okClosed, lst, al, wg, inst, nacc>>

\* faulty variant: the second job launches the children also when finished fires
GateFinishedLaunches(h) ==
    /\ gate[h] = "wait"
    /\ finished[h]
    /\ gate' = [gate EXCEPT ![h] = "launched"]
    /\ StartJobs(Children(h))
    /\ UNCHANGED <<cfgVars, probe, cancelled, runSt, finished, errSent, pc, conn,
                   closeCalls, okClosed, lst, al, wg, inst, nacc>>

\* second job, case <-finished: return
GateFinished(h) ==
    /\ gate[h] = "wait"
    /\ finished[h]
    /\ gate' = [gate EXCEPT ![h] = "done"]
    /\ UNCHANGED <<cfgVars, probe, cancelled, runSt, hct, finished, errSent, pc, conn,
                   closeCalls, okClosed, lst, al, wg, inst, nacc>>

\* faulty variant: the second job does not wait for the jobs of the children
GateChildrenDoneEarly(h) ==
    /\ gate[h] = "launched"
    /\ gate' = [gate EXCEPT ![h] = "done"]
    /\ UNCHANGED <<cfgVars, probe, cancelled, runSt, hct, finished, errSent, pc, conn,
                   closeCalls, okClosed, lst, al, wg, inst, nacc>>

\* second job: nursery.RunConcurrently(jobs...) over the children returned
GateChildrenDone(h) ==
    /\ gate[h] = "launched"
    /\ \A c \in Children(h) : Returned(c)
    /\ gate' = [gate EXCEPT ![h] = "done"]
    /\ UNCHANGED <<cfgVars, probe, cancelled, runSt, hct, finished, errSent, pc, conn,
                   closeCalls, okClosed, lst, al, wg, inst, nacc>>

\* handleConnectionTo: nursery.RunConcurrently returns when both jobs have,
\* with the error sent on errCh
HandleConnectionReturn(h) ==
    /\ hct[h] = "running"
    /\ finished[h]
    /\ gate[h] = "done"
    /\ hct' = [hct EXCEPT ![h] = IF errSent[h] THEN "retErr" ELSE "retNil"]
    /\ JobForConfig(h, errSent[h])
    /\ UNCHANGED <<cfgVars, probe, runSt, gate, finished, errSent, pc, conn,
                   closeCalls, okClosed, lst, al, wg, inst, nacc>>

(***************************************************************************)
(* Execute: the entry point that returns once the listeners are open.  It  *)
(* reads spec.Forward only.  Positions: "xProbe" before the probe of a     *)
(* rule, "xWait" in isDestinationAvailable, "xAns" back with its answer,   *)
(* "xBind" before the bind of a rule, "xDone" returned nil, "errProbe" and *)
(* "errBind" returned an error.  A rule that was skipped has "unreach" or  *)
(* "failed" for a listener.  monitorOrDie of revision "B" probes again     *)
(* every ten seconds and only logs: it is left out.                        *)
(*                                                                         *)
(* probe is the call of isDestinationAvailable under way:                  *)
(*   dial    "pending" serverConnection.Dial has not returned; "ok" it     *)
(*           returned a connection; "failed" it returned an error (and,    *)
(*           with the time limit, the goroutine is at done <- false);      *)
(*           "sendT" the goroutine is at done <- true; "done" the result   *)
(*           was handed to the caller                                      *)
(*   pconn   the connection the dial returned                              *)
(*   answer  what the call returned to Execute                             *)
(*   timedOut  the call returned because time.After fired                  *)
(***************************************************************************)
NoProbe == [dial |-> "none", pconn |-> "none", answer |-> "none",
            timedOut |-> FALSE]

Executing(h) == ver \in ExecVers /\ pc[h] # "idle"

\* serverConnection.Dial("tcp", destination) of the probe returns a connection
ProbeDialOk(h) ==
    /\ Executing(h)
    /\ probe.dial = "pending"
    /\ dest = "up"
    /\ conn[h] = "open"
    /\ probe' = [probe EXCEPT !.dial = "ok", !.pconn = "open"]
    /\ UNCHANGED <<cfgVars, cancelled, orchVars, pc, conn, closeCalls, okClosed,
                   lst, al, wg, inst, nacc>>

\* serverConnection.Dial("tcp", destination) of the probe returns an error
ProbeDialFail(h) ==
    /\ Executing(h)
    /\ probe.dial = "pending"
    /\ probe' = [probe EXCEPT !.dial = "failed"]
    /\ UNCHANGED <<cfgVars, cancelled, orchVars, pc, conn, closeCalls, okClosed,
                   lst, al, wg, inst, nacc>>

\* isDestinationAvailable without a time limit is called: the caller dials
\* (the function of the first revision and, with a timeout parameter it does
\* not read, the deprecated one of the latest have the same body)
BlockingProbeCall(h) ==
    /\ ver = "A"
    /\ pc[h] = "xProbe"
    /\ probe' = [NoProbe EXCEPT !.dial = "pending"]
    /\ pc' = [pc EXCEPT ![h] = "xWait"]
    /\ UNCHANGED <<cfgVars, cancelled, orchVars, conn, closeCalls, okClosed,
                   lst, al, wg, inst, nacc>>

\* the dial has returned: return false, or conn.Close() and return true
BlockingProbeReturn(h) ==
    /\ ver = "A"
    /\ pc[h] = "xWait"
    /\ \/ /\ probe.dial = "failed"
          /\ probe' = [probe EXCEPT !.dial = "done", !.answer = "false"]
       \/ /\ probe.dial = "ok"
          /\ probe' = [probe EXCEPT !.dial = "done", !.answer = "true",
                                    !.pconn = "closed"]
    /\ pc' = [pc EXCEPT ![h] = "xAns"]
    /\ UNCHANGED <<cfgVars, cancelled, orchVars, conn, closeCalls, okClosed,
                   lst, al, wg, inst, nacc>>

\* isDestinationAvailable with a time limit is called: done is made, the
\* goroutine that dials is started, the caller enters the select
TimedProbeCall(h) ==
    /\ ver = "B"
    /\ pc[h] = "xProbe"
    /\ probe' = [NoProbe EXCEPT !.dial = "pending"]
    /\ pc' = [pc EXCEPT ![h] = "xWait"]
    /\ UNCHANGED <<cfgVars, cancelled, orchVars, conn, closeCalls, okClosed,
                   lst, al, wg, inst, nacc>>

\* faulty variant: the goroutine goes on to done <- true with the
\* connection still open
ProbeConnCloseSkipped(h) ==
    /\ ver = "B"
    /\ Executing(h)
    /\ probe.dial = "ok"
    /\ probe' = [probe EXCEPT !.dial = "sendT"]
    /\ UNCHANGED <<cfgVars, cancelled, orchVars, pc, conn, closeCalls, okClosed,
                   lst, al, wg, inst, nacc>>

\* the goroutine of the probe: conn.Close(), then it is at done <- true
ProbeConnClose(h) ==
    /\ ver = "B"
    /\ Executing(h)
    /\ probe.dial = "ok"
    /\ probe' = [probe EXCEPT !.dial = "sendT", !.pconn = "closed"]
    /\ UNCHANGED <<cfgVars, cancelled, orchVars, pc, conn, closeCalls, okClosed,
                   lst, al, wg, inst, nacc>>

\* case status := <-done: the channel has no buffer, the send of the
\* goroutine and the receive of the caller are one step
ProbeReceive(h) ==
    /\ ver = "B"
    /\ pc[h] = "xWait"
    /\ probe.dial \in {"sendT", "failed"}
    /\ probe' = [probe EXCEPT !.dial = "done",
                    !.answer = IF probe.dial = "sendT" THEN "true" ELSE "false"]
    /\ pc' = [pc EXCEPT ![h] = "xAns"]
    /\ UNCHANGED <<cfgVars, cancelled, orchVars, conn, closeCalls, okClosed,
                   lst, al, wg, inst, nacc>>

\* case <-time.After(timeout): return false; the goroutine is left behind
ProbeTimeout(h) ==
    /\ ver = "B"
    /\ pc[h] = "xWait"
    /\ probe' = [probe EXCEPT !.answer = "false", !.timedOut = TRUE]
    /\ pc' = [pc EXCEPT ![h] = "xAns"]
    /\ UNCHANGED <<cfgVars, cancelled, orchVars, conn, closeCalls, okClosed,
                   lst, al, wg, inst, nacc>>

\* Execute after isDestinationAvailable: the destination is available and
\* the port is bound next; or it is not, and revision "A" goes on with the
\* next rule, revision "B" closes the control connection and returns an error
ExecAfterProbe(h) ==
    /\ pc[h] = "xAns"
    /\ \/ /\ probe.answer = "true"
          /\ pc' = [pc EXCEPT ![h] = "xBind"]
          /\ probe' = NoProbe
          /\ UNCHANGED <<lst, conn, closeCalls>>
       \/ /\ probe.answer = "false"
          /\ ver = "A"
          /\ LET l == [lst EXCEPT ![h][FwdAt(h)] = "unreach"] IN
                /\ lst' = l
                /\ pc' = [pc EXCEPT ![h] = ExecLoop(h, l)]
          /\ probe' = NoProbe
          /\ UNCHANGED <<conn, closeCalls>>
       \/ /\ probe.answer = "false"
          /\ ver = "B"
          /\ ServerConnectionClose(h)
          /\ pc' = [pc EXCEPT ![h] = "errProbe"]
          /\ UNCHANGED <<lst, probe>>
    /\ UNCHANGED <<cfgVars, cancelled, orchVars, okClosed, al, wg, inst, nacc>>

\* Execute binds the local port of a rule and starts its accept loop; when
\* the port cannot be bound revision "A" goes on with the next rule,
\* revisions "B" and "C" close the control connection and return an error
ExecBind(h) ==
    /\ ver \in ExecVers
    /\ pc[h] = "xBind"
    /\ LET r == FwdAt(h) IN
       \/ LET l == [lst EXCEPT ![h][r] = "open"] IN
             /\ lst' = l
             /\ al' = [al EXCEPT ![h][r] = "run"]
             /\ pc' = [pc EXCEPT ![h] = ExecLoop(h, l)]
             /\ UNCHANGED <<conn, closeCalls>>
       \/ /\ ver = "A"
          /\ LET l == [lst EXCEPT ![h][r] = "failed"] IN
                /\ lst' = l
                /\ pc' = [pc EXCEPT ![h] = ExecLoop(h, l)]
          /\ UNCHANGED <<al, conn, closeCalls>>
       \/ /\ ver # "A"
          /\ ServerConnectionClose(h)
          /\ pc' = [pc EXCEPT ![h] = "errBind"]
          /\ UNCHANGED <<lst, al>>
    /\ UNCHANGED <<cfgVars, probe, cancelled, orchVars, okClosed, wg, inst, nacc>>

(***************************************************************************)
(* Specifications.                                                         *)
(***************************************************************************)
NoHop(v) == [h \in Hops |-> v]

InitEngineState ==
    /\ cancelled = FALSE
    /\ hct = NoHop("idle")
    /\ gate = NoHop("none")
    /\ finished = NoHop(FALSE)
    /\ errSent = NoHop(FALSE)
    /\ conn = NoHop("none")
    /\ closeCalls = NoHop(0)
    /\ okClosed = NoHop(0)
    /\ lst = NoHop([r \in Rules |-> "none"])
    /\ al = NoHop([r \in Rules |-> "none"])
    /\ wg = NoHop(0)
    /\ inst = NoHop(EmptyBag)
    /\ nacc = 0
    /\ probe = NoProbe

\* cmd/tunnel: run is called with a config of two hops; handleConnectionTo
\* fills spec.Forward only
Init ==
    /\ topo \in {"chain", "siblings"}
    /\ nf \in [Hops -> TreeRules]
    /\ nr = NoHop(0)
    /\ dest = "up"
    /\ via = FALSE
    /\ ver = "block"
    /\ limit = MaxAccepts
    /\ cfgOk \in [Hops -> BOOLEAN]
    /\ runSt = "start"
    /\ pc = NoHop("idle")
    /\ InitEngineState

\* the library: ExecuteAndBlock is called for one Spec (hop 1)
InitEngine ==
    /\ topo = "siblings"
    /\ nf \in [Hops -> 0 .. MaxRules]
    /\ nr \in [Hops -> 0 .. MaxRules]
    /\ nf[1] + nr[1] <= MaxRules
    /\ \A h \in Hops \ {1} : nf[h] = 0 /\ nr[h] = 0
    /\ dest \in DestKinds
    /\ via = FALSE
    /\ ver = "block"
    /\ limit = EngAccepts
    /\ cfgOk = NoHop(TRUE)
    /\ runSt = "lib"
    /\ pc = [h \in Hops |-> IF h = 1 THEN "start" ELSE "idle"]
    /\ InitEngineState

\* the steps of the engine of hop h but for the arrival of a client
EngineCore(h) ==
    \/ MakeServerConnection(h)
    \/ BindForward(h)
    \/ CloseOk(h)
    \/ SelectCtxDone(h)
    \/ SelectConnDone(h)
    \/ WgWait(h)
    \/ CtxCloseListeners(h)
    \/ ConnCloseListeners(h)
    \/ CloseServerConnection(h)
    \/ \E r \in Rules : AcceptError(h, r)
    \/ \E i \in Tunnels(h) :
          \/ DialOk(h, i)
          \/ DialFail(h, i)
          \/ Closer(h, i)
          \/ TunnelDone(h, i)
          \/ \E k \in {1, 2} : CopyEnd(h, i, k)
    \/ PeerClose(h)

EngineStep(h) == EngineCore(h) \/ \E r \in Rules : Accept(h, r)

OrchStep(h) ==
    \/ ResolveAuth(h)
    \/ EngineJobReturn(h)
    \/ GateOk(h)
    \/ GateFinished(h)
    \/ GateChildrenDone(h)
    \/ HandleConnectionReturn(h)

Next ==
    \/ Run
    \/ RunReturn
    \/ Cancel
    \/ \E h \in Hops : OrchStep(h) \/ EngineStep(h)

NextEngine ==
    \/ Cancel
    \/ \E h \in Hops : EngineStep(h) \/ BindReverse(h)

Spec == Init /\ [][Next]_vars

EngineSpec == InitEngine /\ [][NextEngine]_vars

\* the library: Execute, in one of its revisions, is called for one Spec
\* (hop 1)
InitExec ==
    /\ topo = "siblings"
    /\ nf \in [Hops -> 0 .. MaxRules]
    /\ nr = NoHop(0)
    /\ \A h \in Hops \ {1} : nf[h] = 0
    /\ dest \in DestKinds
    /\ via = FALSE
    /\ ver \in ExecVers
    /\ limit = 0
    /\ cfgOk = NoHop(TRUE)
    /\ runSt = "lib"
    /\ pc = [h \in Hops |-> IF h = 1 THEN "start" ELSE "idle"]
    /\ InitEngineState

ExecStep(h) ==
    \/ MakeServerConnection(h)
    \/ BlockingProbeCall(h)
    \/ BlockingProbeReturn(h)
    \/ TimedProbeCall(h)
    \/ ProbeConnClose(h)
    \/ ProbeReceive(h)
    \/ ProbeTimeout(h)
    \/ ProbeDialOk(h)
    \/ ProbeDialFail(h)
    \/ ExecAfterProbe(h)
    \/ ExecBind(h)

NextExec == \E h \in Hops : ExecStep(h)

\* Execute until it returns
ExecSpec == InitExec /\ [][NextExec]_vars

\* a call of either entry point
StartupSpec == (InitExec \/ InitEngine) /\ [][NextExec \/ NextEngine]_vars

(***************************************************************************)
(* Scheduling.  The Go scheduler runs every runnable goroutine, so a step  *)
(* of the program that stays possible is eventually taken.  Nothing is     *)
(* assumed of the environment: a connection need not arrive, a peer need   *)
(* not close its stream, a pending dial on a live device need not resolve. *)
(* What the environment cannot withhold: Accept on a closed listener       *)
(* fails, a dial through a connection that is gone fails, a copy on a      *)
(* closed connection returns.                                              *)
(***************************************************************************)
Progress ==
    \E h \in Hops :
        \/ OrchStep(h)
        \/ BindForward(h)
        \/ CloseOk(h)
        \/ SelectCtxDone(h)
        \/ SelectConnDone(h)
        \/ WgWait(h)
        \/ CtxCloseListeners(h)
        \/ ConnCloseListeners(h)
        \/ CloseServerConnection(h)
        \/ \E r \in Rules : ~ListenerUsable(h, r) /\ AcceptError(h, r)
        \/ \E i \in Tunnels(h) :
              \/ ~DialPossible(h, i) /\ DialFail(h, i)
              \/ Closer(h, i)
              \/ TunnelDone(h, i)
              \/ \E k \in {1, 2} : CopyUnblocked(h, i) /\ CopyEnd(h, i, k)

\* run is called with a valid config of a hop and its ThroughSSH child
InitLive ==
    /\ topo = "chain"
    /\ nf \in [Hops -> TreeRules]
    /\ nr = NoHop(0)
    /\ dest = "up"
    /\ via = FALSE
    /\ ver = "block"
    /\ limit = LiveAccepts
    /\ cfgOk = NoHop(TRUE)
    /\ runSt = "start"
    /\ pc = NoHop("idle")
    /\ InitEngineState

LiveSpec == InitLive /\ [][Next]_vars /\ WF_vars(Progress)

(***************************************************************************)
(* The behaviours the liveness of teardown and of tunnel instances is      *)
(* checked on.  Either run is called with a valid config of a hop and a    *)
(* ThroughSSH child whose destination is the forwarded port of the hop,    *)
(* and the connection of the child is the only one that arrives on the     *)
(* port; or ExecuteAndBlock is called by a user of the library.            *)
(***************************************************************************)
InitVia ==
    /\ topo = "chain"
    /\ nf \in [Hops -> TreeRules]
    /\ nr = NoHop(0)
    /\ dest = "up"
    /\ via = TRUE
    /\ ver = "block"
    /\ limit = 0
    /\ cfgOk = NoHop(TRUE)
    /\ runSt = "start"
    /\ pc = NoHop("idle")
    /\ InitEngineState

ViaStep(c) ==
    \/ SshDialFails(c)
    \/ SshDialOk(c)
    \/ CarrierLost(c)
    \/ \E p \in Hops : \E r \in Rules : AcceptChild(p, r, c)

\* the library: ExecuteAndBlock is called for a Spec of one forward and one
\* reverse rule whose destination answers
InitFairEngine ==
    /\ topo = "siblings"
    /\ nf = [h \in Hops |-> IF h = 1 THEN 1 ELSE 0]
    /\ nr = [h \in Hops |-> IF h = 1 THEN 1 ELSE 0]
    /\ dest = "up"
    /\ via = FALSE
    /\ ver = "block"
    /\ limit = FairAccepts
    /\ cfgOk = NoHop(TRUE)
    /\ runSt = "lib"
    /\ pc = [h \in Hops |-> IF h = 1 THEN "start" ELSE "idle"]
    /\ InitEngineState

InitTeardown == InitVia \/ InitFairEngine

NextTeardown ==
    \/ Run
    \/ RunReturn
    \/ Cancel
    \/ \E h \in Hops : OrchStep(h) \/ EngineStep(h) \/ BindReverse(h) \/ ViaStep(h)

\* what the network cannot withhold from a hop behind a forwarded port: a
\* dial to a port nobody listens on is refused, and a connection the other
\* side closed ends
ProgressTeardown ==
    \/ Progress
    \/ \E h \in Hops :
          \/ BindReverse(h)
          \/ SshDialFails(h) /\ NoWayThrough(h)
          \/ CarrierLost(h)

TeardownSpec == InitTeardown /\ [][NextTeardown]_vars /\ WF_vars(ProgressTeardown)

(***************************************************************************)
(* Properties.                                                             *)
(***************************************************************************)
OpenListeners(h) == {r \in Rules : lst[h][r] = "open"}
BoundForward(h) == {r \in Rules : IsFwd(h, r) /\ lst[h][r] # "none"}

\* C1: startup of ExecuteAndBlock is all-or-nothing: when the readiness
\* channel is closed every forward rule has got its listener, and when the
\* call returns an error no listener of the hop is left open, the control
\* connection is closed and readiness was not fired.
C1_AllOrNothing ==
    \A h \in Hops :
        /\ okClosed[h] > 0 => Cardinality(BoundForward(h)) = nf[h]
        /\ pc[h] \in ErrPcs => /\ okClosed[h] = 0
                               /\ OpenListeners(h) = {}
                               /\ conn[h] # "open"

\* a hop is quiet: no listener open, control connection not open, no tunnel
\* instance running
Quiet(h) == OpenListeners(h) = {} /\ conn[h] # "open" /\ Live(h) = {}
AllReady == \A h \in Hops : okClosed[h] > 0

\* C2: once the shared context is cancelled in a tree whose hops are all
\* ready, the tree eventually has no open listener, no open control
\* connection and no running tunnel instance.
C2_CancelledTreeGetsQuiet == (cancelled /\ AllReady) ~> (\A h \in Hops : Quiet(h))

\* C2, witness: cancellation fires in a tree of two ready hops with a live
\* tunnel instance, open listeners and open control connections
C2_Witness ==
    /\ cancelled /\ AllReady
    /\ \A h \in Hops : pc[h] = "select" /\ conn[h] = "open" /\ OpenListeners(h) # {}
    /\ \E h \in Hops : Live(h) # {}

Started(h) == hct[h] # "idle" \/ pc[h] # "idle"

\* C3: a child hop is started (so its control connection dialed) only after
\* the readiness channel of its parent has been closed, and the children are
\* launched only through that gate.
C3_ChildAfterParentReady ==
    \A p \in Hops :
        /\ gate[p] = "launched" => okClosed[p] > 0
        /\ \A c \in Children(p) : Started(c) => okClosed[p] > 0 /\ gate[p] # "wait"

\* C3, witness: the control connection of a child is open
C3_Witness == \E p \in Hops : \E c \in Children(p) : conn[c] = "open" /\ okClosed[p] > 0

\* C4: on the cancellation branch serverConnection.Close() is called only
\* when every registered tunnel instance has completed and every listener of
\* the hop is closed.
C4_CloseAfterInstancesAndListeners ==
    [][\A h \in Hops :
          (pc[h] = "ctxCloseConn" /\ closeCalls'[h] > closeCalls[h])
              => (wg[h] = 0 /\ Live(h) = {} /\ OpenListeners(h) = {})]_vars

InCtxTeardown(h) == pc[h] \in {"ctxWait", "ctxCloseL", "ctxCloseConn", "doneCtx"}

\* C5: once the teardown on cancellation has begun (it is at wg.Wait() or
\* beyond), no accept loop of the hop accepts a connection and no tunnel
\* instance of the hop is started.
C5_NoAcceptAfterCancel ==
    [][\A h \in Hops :
          InCtxTeardown(h) => /\ BagCardinality(inst'[h]) <= BagCardinality(inst[h])
                              /\ wg'[h] <= wg[h]]_vars

\* C6: when ExecuteAndBlock has returned after cancellation no tunnel
\* instance of the hop is copying or registered with the completion tracker.
C6_NoInstanceOutlivesEngine ==
    \A h \in Hops : pc[h] = "doneCtx" => (Live(h) = {} /\ wg[h] = 0)

\* C7 as stated: on every path by which the engine ends after the control
\* connection was established, Close was called on it exactly once.
C7_CloseExactlyOnce ==
    \A h \in Hops : pc[h] \in {"errBind", "doneCtx", "doneConn"} => closeCalls[h] = 1

\* C7, amended: Close is called at most once; exactly once when a forward
\* listener fails to bind and on shared cancellation; not at all when the
\* engine ends because the peer closed the connection.
C7_CloseOncePerPath ==
    \A h \in Hops :
        /\ closeCalls[h] <= 1
        /\ pc[h] \in {"errBind", "doneCtx"} => closeCalls[h] = 1
        /\ pc[h] = "doneConn" => closeCalls[h] = 0

\* C7, witness: the engine ended on the peer-closed branch
C7_Witness == \E h \in Hops : pc[h] = "doneConn" /\ conn[h] = "dropped" /\ closeCalls[h] = 0

TornDown(h) == pc[h] \in RetPcs \cup {"idle"} /\ Quiet(h)

\* C8: the control connection of a parent hop is closed only when every
\* child hop that established its control connection has completed its
\* teardown.
C8_ParentClosesAfterChildren ==
    [][\A p \in Hops : \A c \in Children(p) :
          closeCalls'[p] > closeCalls[p] => (conn[c] = "none" \/ TornDown(c))]_vars

ConnectFailed(h) == pc[h] \in ErrPcs \/ (hct[h] = "retErr" /\ pc[h] = "idle")

\* C9: when the connecting step of a node failed (auth resolution, dial of
\* the control connection, engine startup) none of its children is ever
\* started, and handleConnectionTo returns the error.
C9_FailedNodeStartsNoChild ==
    \A h \in Hops :
        ConnectFailed(h) =>
            /\ \A c \in Children(h) : ~Started(c)
            /\ gate[h] # "launched"
            /\ Returned(h) => hct[h] = "retErr"

\* C9, witness: a node with a child failed its startup and has returned
C9_Witness ==
    \E h \in Hops : Children(h) # {} /\ pc[h] = "errBind" /\ hct[h] = "retErr"

HopState(h) == <<hct[h], gate[h], finished[h], errSent[h], pc[h], conn[h],
                 closeCalls[h], okClosed[h], lst[h], al[h], wg[h], inst[h]>>

\* C10: the failure of a hop during connecting or startup changes nothing
\* in a hop outside its subtree and does not cancel the shared context, and
\* a ready hop leaves the select only on cancellation or when its own
\* control connection ended.
C10_SiblingFailureContained ==
    [][\A f \in Hops :
          /\ (~ConnectFailed(f) /\ ConnectFailed(f)') \/ (~Returned(f) /\ Returned(f)')
                => /\ cancelled' = cancelled
                   /\ \A s \in Hops \ {f} : HopState(s)' = HopState(s)
          /\ (pc[f] = "select" /\ pc'[f] # "select")
                => (cancelled \/ conn[f] # "open")]_vars

\* C10, witness: a hop is ready and blocked in the select, uncancelled, after
\* its sibling has failed
C10_Witness ==
    /\ topo = "siblings"
    /\ ~cancelled
    /\ \E f \in Hops : \E s \in Hops \ {f} :
          /\ hct[f] = "retErr"
          /\ pc[s] = "select" /\ conn[s] = "open" /\ OpenListeners(s) # {}

RunReturned == runSt \in {"retNil", "retErr"}

\* C11: when a top-level hop failed its connecting step (auth resolution,
\* dial of the control connection, engine startup) and so never became
\* ready, run returns a non-nil error.
C11_RootFailureReturnsError ==
    \A h \in Roots :
        (ConnectFailed(h) /\ okClosed[h] = 0 /\ RunReturned) => runSt = "retErr"

\* C12: handleConnectionTo of a node has returned only when its
\* ExecuteAndBlock has returned (or was never called) and handleConnectionTo
\* of every started child has returned; run has returned only when
\* handleConnectionTo of every top-level hop it started has.
C12_ReturnAfterEngineAndDescendants ==
    /\ \A h \in Hops :
          Returned(h) => /\ pc[h] \in RetPcs \cup {"idle"}
                         /\ \A c \in Children(h) : Started(c) => Returned(c)
    /\ RunReturned => \A h \in Roots : Started(h) => Returned(h)

\* C12, witness: run has returned after a chain of two hops was ready and
\* both engines went through their teardown
C12_Witness ==
    /\ runSt = "retNil"
    /\ \A h \in Hops : Returned(h) /\ pc[h] \in DonePcs /\ okClosed[h] > 0
    /\ \E p \in Hops : Children(p) # {}

IsRule(h, r) == IsFwd(h, r) \/ IsRev(h, r)

\* C14: the readiness channel of a hop is closed at most once, only when
\* every rule of the hop (forward and reverse) has got its listener, and not
\* at all in a call of ExecuteAndBlock that returns a startup error.
C14_ReadyOnceAfterAllListeners ==
    \A h \in Hops :
        /\ okClosed[h] <= 1
        /\ okClosed[h] > 0 =>
              \A r \in Rules : IsRule(h, r) => lst[h][r] \in {"open", "closed"}
        /\ pc[h] \in ErrPcs => okClosed[h] = 0

\* a call of tunnel returns because its dial failed
DialFailed(h) ==
    \E i \in Tunnels(h) : i.st = "dialing" /\ inst'[h] = inst[h] (-) SetToBag({i})

\* C15: when the dial for an accepted connection fails, the call of tunnel
\* for it ends and nothing else changes: the listeners and accept loops, the
\* engine, the control connection, the completion tracker and the tunnel
\* instances of the other hops are as before.
C15_DialFailureIsLocal ==
    [][\A h \in Hops :
          DialFailed(h) =>
              /\ UNCHANGED <<lst, al, pc, conn, closeCalls, okClosed, wg, cancelled>>
              /\ \A o \in Hops \ {h} : inst'[o] = inst[o]]_vars

\* C15, witness: the destination refuses every dial, so the first accepted
\* connection has failed its dial; the listener is still open, the accept
\* loop runs and has accepted a second connection
C15_Witness ==
    /\ dest # "up"
    /\ nacc = 2
    /\ \E h \in Hops : \E r \in Rules :
          /\ pc[h] = "select" /\ ~cancelled
          /\ lst[h][r] = "open" /\ al[h][r] = "run"
          /\ inst[h] = SetToBag({NewTunnel(r)})

\* C16: with a rule whose destination is the empty string the startup of
\* the engine opens no listener and does not fire readiness.
C16_EmptyDestinationRejected ==
    \A h \in Hops :
        (dest = "empty" /\ nf[h] + nr[h] > 0) =>
            /\ \A r \in Rules : lst[h][r] = "none"
            /\ okClosed[h] = 0

\* C17: when the remote listener of a reverse rule failed to bind, the
\* startup of the hop fails: readiness is not fired, no listener of the hop
\* stays open and the control connection is closed.
C17_ReverseBindFailureFailsStartup ==
    \A h \in Hops :
        (\E r \in Rules : IsRev(h, r) /\ lst[h][r] = "failed") =>
            /\ okClosed[h] = 0
            /\ pc[h] \notin {"select"} \cup DonePcs
            /\ pc[h] \in ErrPcs => (OpenListeners(h) = {} /\ conn[h] # "open")

\* the number of calls of tunnel of hop h that are past their dial
LiveCount(h) == BagCardinality([i \in Live(h) |-> inst[h][i]])

\* C20: the counter of the WaitGroup of a hop always equals the number of
\* its tunnel instances that are past their dial (so it is never negative);
\* it changes only by one: up when the dial of an instance has succeeded
\* and neither copy task has started, down when an instance whose two copy
\* tasks have finished returns.
C20_TrackerCountsLiveInstances ==
    /\ [](\A h \in Hops : wg[h] = LiveCount(h))
    /\ [][\A h \in Hops :
            wg'[h] # wg[h] =>
                \/ /\ wg'[h] = wg[h] + 1
                   /\ \E i \in Tunnels(h) :
                         /\ i.st = "dialing" /\ ~i.c1 /\ ~i.c2
                         /\ inst'[h] = Replace(inst[h], i, [i EXCEPT !.st = "copying"])
                \/ /\ wg'[h] + 1 = wg[h]
                   /\ \E i \in Tunnels(h) :
                         /\ i.st = "copying" /\ i.c1 /\ i.c2
                         /\ inst'[h] = inst[h] (-) SetToBag({i})]_vars

\* C20, witness: two instances are registered, one with both copy tasks
\* finished and not yet returned, one with both copy tasks running
C20_Witness ==
    \E h \in Hops :
        /\ wg[h] = 2
        /\ \E i, j \in Live(h) : i.c1 /\ i.c2 /\ ~j.c1 /\ ~j.c2

\* the control connection of a ready hop was ended by the other side and
\* the shared context is not cancelled
Dropped(h) == okClosed[h] > 0 /\ conn[h] = "dropped" /\ ~cancelled

\* C13: when the control connection of a ready hop was ended by the other
\* side with the shared context not cancelled, the engine of the hop leaves
\* wg.Wait() only with no live instance, and eventually ExecuteAndBlock of
\* the hop has returned, no listener of the hop is open, no instance of it
\* is live, and every child hop that dialed through it is torn down.
C13_DroppedHopTearsDownSubtree ==
    /\ [][\A h \in Hops :
            (pc[h] = "connWait" /\ pc'[h] # "connWait")
                => (Live(h) = {} /\ wg[h] = 0)]_vars
    /\ \A h \in Hops :
          Dropped(h) ~> /\ pc[h] \in DonePcs
                        /\ OpenListeners(h) = {}
                        /\ Live(h) = {}
                        /\ \A c \in Children(h) : TornDown(c)

\* C13, witness: the connection of the parent was dropped while its child
\* was ready behind it; the engine of the parent waits for the instance that
\* carries the connection of the child
C13_Witness ==
    \E p \in Hops : \E c \in Children(p) :
        /\ Dropped(p) /\ pc[p] = "connWait" /\ wg[p] = 1
        /\ OpenListeners(p) # {}
        /\ pc[c] = "select" /\ conn[c] = "open" /\ OpenListeners(c) # {}

\* the instances of hop h with a copy task that has finished
Finishing(h) == {i \in Tunnels(h) : i.c1 \/ i.c2}

\* C18: an instance one of whose copy tasks has finished has both its
\* connections closed, and eventually it has completed: no instance stays
\* with a finished copy task.
C18_NoHalfOpenInstance ==
    /\ [](\A h \in Hops : \A i \in Finishing(h) : ~i.open)
    /\ (\E h \in Hops : Finishing(h) # {}) ~> (\A h \in Hops : Finishing(h) = {})

\* C18, witness: with the context not cancelled and the control connection
\* open, one copy task of an instance has finished and closed the
\* connections while the other has not returned yet
C18_Witness ==
    \E h \in Hops :
        /\ ~cancelled /\ conn[h] = "open"
        /\ \E i \in Live(h) : i.c1 /\ ~i.c2 /\ ~i.open

\* C19: once the shared context is cancelled every live tunnel instance
\* eventually has completed, with no end of stream from either peer needed.
C19_CancelEndsInstances ==
    (cancelled /\ \E h \in Hops : Live(h) # {}) ~> (\A h \in Hops : Live(h) = {})

\* C19, witness: the context is cancelled and the connections of a live
\* instance were closed by its closer goroutine: neither copy task has
\* finished and the control connection is open
C19_Witness ==
    \E h \in Hops :
        /\ cancelled /\ conn[h] = "open"
        /\ \E i \in Live(h) : ~i.open /\ ~i.c1 /\ ~i.c2 /\ i.carries = 0

\* the accept loop of rule r ends on an error of Accept
AcceptFailed(h, r) == al[h][r] = "run" /\ al'[h][r] = "done"

\* a copy task of an instance of hop h ends and closes the connections of
\* that instance; the other instances of the hop are as before
CopyEnded(h) ==
    \E i \in Tunnels(h) :
        /\ i.st = "copying"
        /\ \/ ~i.c1 /\ inst'[h] = Replace(inst[h], i, [i EXCEPT !.c1 = TRUE, !.open = FALSE])
           \/ ~i.c2 /\ inst'[h] = Replace(inst[h], i, [i EXCEPT !.c2 = TRUE, !.open = FALSE])

\* C27: in a ready hop a failure of Accept, of a dial or of a copy leaves
\* the control connection, the position of ExecuteAndBlock, the completion
\* tracker and the instances of other hops as they are; a failure of Accept
\* ends the accept loop and closes the listener of its rule only and touches
\* no instance; a failed dial or copy touches no listener and no accept loop,
\* and a copy that ends changes its own instance only.
C27_FailureAfterReadyContained ==
    [][\A h \in Hops :
          okClosed[h] > 0 =>
              /\ ((\E r \in Rules : AcceptFailed(h, r)) \/ DialFailed(h) \/ CopyEnded(h))
                    => /\ UNCHANGED <<conn, closeCalls, pc, wg, okClosed, cancelled>>
                       /\ \A o \in Hops \ {h} : inst'[o] = inst[o]
              /\ \A r \in Rules :
                    AcceptFailed(h, r)
                        => /\ lst'[h][r] = "closed"
                           /\ \A q \in Rules \ {r} :
                                 lst'[h][q] = lst[h][q] /\ al'[h][q] = al[h][q]
                           /\ inst' = inst
              /\ (DialFailed(h) \/ CopyEnded(h)) => UNCHANGED <<lst, al>>
              /\ (inst'[h] # inst[h] /\ wg' = wg /\ BagCardinality(inst'[h]) = BagCardinality(inst[h]))
                    => (CopyEnded(h) \/ \E i \in Tunnels(h) :
                            inst'[h] = Replace(inst[h], i, [i EXCEPT !.open = FALSE]))]_vars

\* C27, witness: in a ready hop with two rules the accept loop of one rule
\* has ended and its listener is closed, while the other rule still listens,
\* an instance of it is live, the control connection is open and
\* ExecuteAndBlock is in its select, uncancelled
C27_Witness ==
    \E h \in Hops : \E r, q \in Rules :
        /\ pc[h] = "select" /\ ~cancelled /\ conn[h] = "open"
        /\ al[h][r] = "done" /\ lst[h][r] = "closed"
        /\ al[h][q] = "run" /\ lst[h][q] = "open"
        /\ \E i \in Live(h) : i.rule = q /\ i.open

\* C28: when the shared context is cancelled and ExecuteAndBlock of a
\* parent hop has returned, no child hop that dialed through it has its
\* control connection open.
C28_NoChildConnectionAfterParent ==
    \A p \in Hops : \A c \in Children(p) :
        (cancelled /\ pc[p] \in DonePcs) => conn[c] # "open"

Dialing(h) == {i \in Tunnels(h) : i.st = "dialing"}

\* C29: a call of tunnel does not stay in its dial for ever: an accepted
\* connection whose dial is pending eventually has its dial ended.
C29_DialIsBounded ==
    \A h \in Hops : (Dialing(h) # {}) ~> (Dialing(h) = {})

\* C30: when ExecuteAndBlock has returned, no accept loop it spawned is
\* left in Accept on a listener that is open on a device that is up.
C30_NoAcceptLoopLeftBlocked ==
    \A h \in Hops :
        pc[h] \in RetPcs => \A r \in Rules : al[h][r] = "run" => ~ListenerUsable(h, r)


DialCount(h) == BagCardinality([i \in Dialing(h) |-> inst[h][i]])

\* C23: every tunnel goroutine serves a rule of its hop and dials on the
\* device opposite to the one the rule listens on: a forward rule listens
\* on the local device and its goroutines dial through the control
\* connection, a reverse rule listens on the peer and its goroutines dial
\* on the local device.  An accepted connection starts exactly one dial,
\* on the hop that accepted it: the number of pending dials of a hop grows
\* only by an accept, and then by one, and a goroutine past its dial never
\* dials again.
C23_OneDialOnOppositeDevice ==
    /\ [](\A h \in Hops : \A i \in Tunnels(h) :
            /\ IsRule(h, i.rule)
            /\ IsFwd(h, i.rule) => ListenDevice(h, i.rule) = "local" /\ i.dev = "ssh"
            /\ IsRev(h, i.rule) => ListenDevice(h, i.rule) = "ssh" /\ i.dev = "local")
    /\ [][/\ nacc' = nacc + 1 =>
                \E h \in Hops :
                    /\ DialCount(h)' = DialCount(h) + 1
                    /\ Live(h)' = Live(h)
                    /\ \A g \in Hops \ {h} : inst'[g] = inst[g]
          /\ \A h \in Hops :
                DialCount(h)' > DialCount(h) => nacc' = nacc + 1]_vars

\* C23, witness: a hop with a forward and a reverse rule has served a
\* connection of each: both goroutines are past their dial
C23_Witness ==
    \E h \in Hops : \E i, j \in Live(h) :
        /\ IsFwd(h, i.rule) /\ i.dev = "ssh"
        /\ IsRev(h, j.rule) /\ j.dev = "local"
        /\ nacc = 2


\* C21: a caller of isDestinationAvailable is never blocked by a dial that
\* does not return: while it waits and the dial is unresolved, the call can
\* return false with the dial still unresolved.
C21_ProbeReturnsWithoutDial ==
    \A h \in Hops :
        (pc[h] = "xWait" /\ probe.dial = "pending") =>
            ENABLED (/\ ExecStep(h)
                     /\ pc'[h] = "xAns"
                     /\ probe'.answer = "false"
                     /\ probe'.dial = "pending")

\* C22: once isDestinationAvailable has returned on its time limit its
\* answer is and stays false, the result of the dial is never handed to a
\* caller, and a connection the dial returns later is closed before the
\* goroutine comes to rest.
C22_LateSuccessClosedAndDropped ==
    /\ [](probe.timedOut =>
            /\ probe.answer = "false"
            /\ probe.dial # "done"
            /\ probe.dial = "sendT" => probe.pconn = "closed")
    /\ [][probe.timedOut =>
            /\ probe'.timedOut
            /\ probe.dial = "sendT" => probe' = probe]_vars

\* C22, witness: the probe timed out, Execute has returned its error, and
\* the dial succeeded afterwards: its connection is closed and the
\* goroutine rests at its send
C22_Witness ==
    \E h \in Hops :
        /\ pc[h] = "errProbe"
        /\ probe.timedOut
        /\ probe.dial = "sendT"
        /\ probe.pconn = "closed"
        /\ probe.answer = "false"

\* C24: while a call of Execute or ExecuteAndBlock has no control
\* connection it has opened no listener, started no accept loop and not
\* fired readiness, and it goes no further than the return of the error of
\* the failed dial.
C24_NoConnectionNothingStarted ==
    \A h \in Hops :
        conn[h] = "none" =>
            /\ pc[h] \in {"idle", "start", "errDial"}
            /\ \A r \in Rules : lst[h][r] = "none" /\ al[h][r] = "none"
            /\ okClosed[h] = 0
            /\ inst[h] = EmptyBag

\* C24, witness: Execute was called with forward rules and has returned the
\* error of the dial
C24_Witness ==
    \E h \in Hops :
        /\ pc[h] = "errDial"
        /\ ver \in ExecVers
        /\ nf[h] > 0
        /\ conn[h] = "none"

\* C25: in Execute an unreachable destination is never a failure of the
\* call: Execute does not return an error for it, no listener is opened for
\* a forward rule whose destination cannot be reached, the control
\* connection stays open when a rule was skipped for it, and Execute
\* returns nil only when every rule has been dealt with.
C25_UnreachableRuleOnlySkipped ==
    \A h \in Hops :
        Executing(h) =>
            /\ pc[h] # "errProbe"
            /\ dest # "up" => \A r \in Rules : IsFwd(h, r) => lst[h][r] # "open"
            /\ (\E r \in Rules : lst[h][r] = "unreach") => conn[h] = "open"
            /\ pc[h] = "xDone" => \A r \in Rules : IsFwd(h, r) => lst[h][r] # "none"

\* C26: Execute returns no error for a local port it cannot bind: the rule
\* is skipped and the control connection stays open.
C26_BadLocalPortIsSkipped ==
    \A h \in Hops :
        Executing(h) =>
            /\ pc[h] # "errBind"
            /\ (\E r \in Rules : lst[h][r] = "failed") => conn[h] = "open"


\* C31: a hop serves no traffic before its readiness signal: while close(ok)
\* has not run no tunnel goroutine of the hop exists.
C31_NoTrafficBeforeReady ==
    \A h \in Hops : okClosed[h] = 0 => inst[h] = EmptyBag

\* C32: once the shared context is cancelled no job of a child hop is
\* started and no child hop dials its control connection.
C32_NoChildLaunchAfterCancel ==
    [][cancelled =>
          \A p \in Hops : \A c \in Children(p) :
              /\ hct[c] = "idle" => hct'[c] = "idle"
              /\ conn[c] = "none" => conn'[c] = "none"]_vars

\* the second job of handleConnectionTo of hop h can leave its select
GateOpen(h) == okClosed[h] > 0 \/ pc[h] \in RetPcs

\* the engine of hop h has returned and so has every child job the second
\* job of handleConnectionTo started
AllBack(h) ==
    /\ hct[h] = "running"
    /\ pc[h] \in RetPcs
    /\ \/ gate[h] = "done"
       \/ gate[h] = "launched" /\ \A c \in Children(h) : Returned(c)

\* C33: handleConnectionTo does not hang on its gate: when ExecuteAndBlock
\* has fired readiness or has returned, with or without an error, the
\* second job leaves its select; and when the engine and every child job
\* that was started have returned, handleConnectionTo returns.
C33_GateNeverHangs ==
    \A h \in Hops :
        /\ (gate[h] = "wait" /\ GateOpen(h)) ~> (gate[h] # "wait")
        /\ AllBack(h) ~> Returned(h)

\* C33, witness: ExecuteAndBlock returned an error before readiness, the
\* second job left its select on finished, handleConnectionTo has returned
C33_Witness ==
    \E h \in Hops :
        /\ pc[h] \in ErrPcs
        /\ okClosed[h] = 0
        /\ finished[h]
        /\ gate[h] = "done"
        /\ hct[h] = "retErr"

\* C34: when the config of a hop of the file does not validate, run returns
\* the error and nothing was started: no job of a hop, no call of
\* ExecuteAndBlock, no control connection, also for the entries that
\* validate and come earlier in the list.
C34_InvalidConfigStartsNothing ==
    (\E g \in Hops : ~cfgOk[g]) =>
        /\ runSt \in {"start", "retErr"}
        /\ \A h \in Hops : hct[h] = "idle" /\ pc[h] = "idle" /\ conn[h] = "none"

\* C34, witness: of two top-level entries the first validates and the
\* second does not; run has returned the error
C34_Witness ==
    /\ topo = "siblings"
    /\ cfgOk[1] /\ ~cfgOk[2]
    /\ runSt = "retErr"
    /\ conn = NoHop("none")

\* C35: the goroutine of isDestinationAvailable is never stuck at its send
\* on done: whenever it is there, the send can complete.
C35_ProbeHelperNeverBlocked ==
    \A h \in Hops :
        (Executing(h) /\ probe.dial \in {"sendT", "failed"}) =>
            ENABLED (ExecStep(h) /\ probe'.dial = "done")

====
